---- MODULE Spec2Model ----
(***************************************************************************)
(* The record-keeping service of src/main.py: three SQLite tables (users,  *)
(* products, orders) behind eight FastAPI handlers.                        *)
(*                                                                         *)
(* Each handler issues exactly one statement against the store and the     *)
(* store serialises writers, so a handler is one atomic action.  The       *)
(* state is the committed content of the three tables, the request being   *)
(* answered, the response sent for it, and the bookkeeping of the store    *)
(* that the handlers read back (the id an INSERT was given, the rowcount   *)
(* of a write).                                                            *)
(*                                                                         *)
(* Three facts of the Python run time decide what the handlers do, and     *)
(* are modelled from the declarations of the source:                       *)
(*  - a call that unpacks a dict d into keywords and also passes the     *)
(*    keyword k raises TypeError when d already has key k;                 *)
(*  - assigning an attribute that is not a declared field of a pydantic    *)
(*    BaseModel raises ValueError;                                         *)
(*  - leaving `async with database.transaction()` by an exception rolls    *)
(*    the transaction back, leaving it normally commits.                   *)
(* The store is taken to be reachable: every statement is executed.        *)
(***************************************************************************)
EXTENDS Integers, FiniteSets, Sequences, TLC

VARIABLES users, products, orders, req, resp, last_record_id, rowcount, ever_stored, lastrowid_unset

\* users, products, orders : the committed rows of the three tables
\* req, resp               : the request last answered and its response
\* last_record_id          : what database.execute returned for the INSERT of
\*                           that request (0: no INSERT was executed)
\* rowcount                : rows the write of that request touched (-1: none
\*                           was executed)
\* ever_stored             : per table, the ids a row was ever stored under
\* lastrowid_unset         : whether this Python's sqlite3 leaves
\*                           cursor.lastrowid None after a statement that
\*                           inserts nothing (fixed for the life of the process)
vars == <<users, products, orders, req, resp, last_record_id, rowcount, ever_stored, lastrowid_unset>>

(***************************************************************************)
(* Bounds of the model.                                                    *)
(***************************************************************************)
\* Rows a table of main.db holds when the process starts, at most.
MaxRows == 2

RowIds == 1..MaxRows
\* Ids a request may name: every id a table can hold, and one beyond.
ReqIds == 1..(MaxRows + 1)
\* Readings of datetime.utcnow(); the rows of the initial file are dated 0.
Times == {1, 2}

EmailList == <<"a@b.com", "c@d.com", "e@f.com", "g@h.com", "i@j.com", "k@l.com">>
Emails == {EmailList[i] : i \in ReqIds}
ProductNames == {"Widget", "Gadget"}

\* Python's None.
None == [none |-> TRUE]

Max(S) == CHOOSE m \in S : \A x \in S : x <= m

\* f restricted to the keys in S.
Restrict(f, S) == [k \in S |-> f[k]]

(***************************************************************************)
(* The pydantic schemas: the declared fields of each class.                *)
(***************************************************************************)
UserBase == {"first_name", "last_name", "email"}
UserCreate == UserBase \cup {"password"}
User == UserBase \cup {"id"}
ProductBase == {"name", "description", "price"}
ProductCreate == ProductBase
Product == ProductBase \cup {"id"}
OrderBase == {"user_id", "product_id"}
OrderCreate == OrderBase
Order == OrderBase \cup {"id", "order_date", "status"}

(***************************************************************************)
(* The table columns.                                                      *)
(***************************************************************************)
UserModel == {"id", "first_name", "last_name", "email", "password"}
ProductModel == {"id", "name", "description", "price"}
OrderModel == {"id", "user_id", "product_id", "order_date", "status"}

\* Column default of orders.status.
StatusDefault == "Pending"

(***************************************************************************)
(* Python and pydantic.                                                    *)
(***************************************************************************)
\* A dict d unpacked into keywords beside the keyword k: TypeError "got multiple values for keyword argument" when
\* d already carries k.
KeywordCollision(d, k) == k \in DOMAIN d

\* As if every attribute were a declared field.
SetAttrAllowsAll(fields, name) == FALSE

\* model.name = value on a BaseModel whose declared fields are `fields`:
\* ValueError "object has no field" unless name is declared.
SetAttrRaises(fields, name) == name \notin fields

\* FastAPI's response_model: the returned value must carry every field of
\* the response schema, and only those fields are sent.
Validates(fields, value) == fields \subseteq DOMAIN value

Response(code, detail, body) == [status_code |-> code, detail |-> detail, body |-> body]

\* An exception that no handler catches: 500.
ServerError(exc) == Response(500, exc, None)

HTTPException(code, detail) == Response(code, detail, None)

Serialize(fields, value) ==
    IF Validates(fields, value)
    THEN Response(200, "OK", Restrict(value, fields))
    ELSE ServerError("ResponseValidationError")

(***************************************************************************)
(* The store.  A table is a function from the ids of its rows to the rows. *)
(***************************************************************************)
\* INTEGER PRIMARY KEY of SQLite: one more than the largest id in the table.
NextRowId(table) == IF DOMAIN table = {} THEN 1 ELSE Max(DOMAIN table) + 1

\* UNIQUE on users.email.
EmailTaken(table, email) == \E i \in DOMAIN table : table[i].email = email

Insert(table, id, row) == [i \in DOMAIN table \cup {id} |-> IF i = id THEN row ELSE table[i]]

\* SELECT without its WHERE clause: the first row of the table.
fetch_first(table, id) ==
    IF DOMAIN table = {} THEN None ELSE table[CHOOSE i \in DOMAIN table : \A j \in DOMAIN table : i <= j]

\* SELECT ... WHERE id = :id, first row or None.
fetch_one(table, id) == IF id \in DOMAIN table THEN table[id] ELSE None

\* UPDATE ... SET values WHERE id = :id.
Update(table, id, values) ==
    [i \in DOMAIN table |->
        IF i = id
        THEN [c \in DOMAIN table[i] |-> IF c \in DOMAIN values THEN values[c] ELSE table[i][c]]
        ELSE table[i]]

\* DELETE that also takes the rows below the id.
DeleteUpTo(table, id) == [i \in {j \in DOMAIN table : j > id} |-> table[i]]

\* DELETE ... WHERE id = :id.
Delete(table, id) == [i \in DOMAIN table \ {id} |-> table[i]]

Matched(table, id) == IF id \in DOMAIN table THEN 1 ELSE 0

\* What database.execute returns for a statement that inserts nothing, on
\* the request's fresh connection: cursor.lastrowid, or cursor.rowcount when
\* lastrowid is 0.  sqlite3 leaves lastrowid None after such a statement on
\* some Python versions and sets it (0 here) on others.
ExecuteResult(unset, count) == IF unset THEN None ELSE [rowcount |-> count]

(***************************************************************************)
(* The requests.                                                           *)
(***************************************************************************)
UserCreateInputs ==
    [first_name : {"A"}, last_name : {"B"}, email : Emails, password : {"x"}]
ProductCreateInputs ==
    [name : ProductNames, description : {"d"}, price : {"9.99"}]
\* References a request may carry: the first id of a table, and an id no
\* table holds.
RefIds == {1, MaxRows + 1}
OrderCreateInputs == [user_id : RefIds, product_id : RefIds]

NoRequest == [op |-> "none"]

(***************************************************************************)
(* main.db outlives the process and create_all only creates the tables     *)
(* that are missing: the process starts on whatever rows the file holds.   *)
(* The file satisfies the constraints the schema declares: primary keys,   *)
(* unique emails, orders that reference stored users and products.  Users  *)
(* and products are never deleted, so their ids are 1..k.                  *)
(***************************************************************************)
InitUsers ==
    {[i \in 1..k |-> [id |-> i, first_name |-> "A", last_name |-> "B",
                      email |-> EmailList[i], password |-> "x"]] : k \in 0..MaxRows}

InitProducts ==
    {[i \in 1..k |-> [name |-> "Widget", description |-> "d", price |-> "9.99"]] : k \in 0..MaxRows}

WithId(table) == [i \in DOMAIN table |-> [c \in DOMAIN table[i] \cup {"id"} |->
                                             IF c = "id" THEN i ELSE table[i][c]]]

\* The orders of the initial file: each references a stored user and a
\* stored product (user j and product j, for some j).
InitOrders(u, p) ==
    UNION {[S -> {[user_id |-> j, product_id |-> j, order_date |-> 0, status |-> StatusDefault] :
                     j \in DOMAIN u \cap DOMAIN p}] : S \in SUBSET RowIds}

Init ==
    /\ users \in InitUsers
    /\ products \in {WithId(t) : t \in InitProducts}
    /\ orders \in {WithId(t) : t \in InitOrders(users, products)}
    /\ req = NoRequest
    /\ resp = Response(0, "none", None)
    /\ last_record_id = 0
    /\ rowcount = -1
    /\ ever_stored = [users |-> DOMAIN users, products |-> DOMAIN products, orders |-> DOMAIN orders]
    /\ lastrowid_unset \in BOOLEAN

(***************************************************************************)
(* The handlers.                                                           *)
(***************************************************************************)
Answered(r, response) ==
    /\ req' = r
    /\ resp' = response

\* No statement reached the store: no id was given, no row was counted.
NothingExecuted ==
    /\ last_record_id' = 0
    /\ rowcount' = -1

\* An INSERT was executed and given `id` (whether or not it is committed).
Inserted(id) ==
    /\ last_record_id' = id
    /\ rowcount' = 1

\* The transaction that inserted a row under `id` into `table` commits.
Committed(table, id) == ever_stored' = [ever_stored EXCEPT ![table] = @ \cup {id}]

\* POST /users/
create_user(user) ==
    LET r == [op |-> "create_user", user |-> user]
        id == NextRowId(users)
    IN  /\ UNCHANGED <<products, orders, lastrowid_unset>>
        /\ IF KeywordCollision(user, "password")
           THEN \* the query is never built
                /\ UNCHANGED <<users, ever_stored>>
                /\ NothingExecuted
                /\ Answered(r, ServerError("TypeError"))
           ELSE IF EmailTaken(users, user.email)
           THEN /\ UNCHANGED <<users, ever_stored>>
                /\ NothingExecuted
                /\ Answered(r, ServerError("IntegrityError"))
           ELSE /\ Inserted(id)
                /\ IF SetAttrRaises(UserCreate, "id")
                   THEN \* the exception leaves the transaction: rollback
                        /\ UNCHANGED <<users, ever_stored>>
                        /\ Answered(r, ServerError("ValueError"))
                   ELSE /\ Committed("users", id)
                        /\ users' = Insert(users, id, [c \in UserModel |->
                                        IF c = "id" THEN id ELSE user[c]])
                        /\ Answered(r, Serialize(User, [c \in UserCreate \cup {"id"} |->
                                        IF c = "id" THEN id ELSE user[c]]))

\* GET /users/{user_id}
read_user(user_id) ==
    LET user == fetch_one(users, user_id)
    IN  /\ UNCHANGED <<users, products, orders, ever_stored, lastrowid_unset>>
        /\ last_record_id' = 0
        /\ rowcount' = -1
        /\ Answered([op |-> "read_user", id |-> user_id],
                    IF user = None
                    THEN HTTPException(404, "User not found")
                    ELSE Serialize(User, user))

\* POST /products/
create_product(product) ==
    LET r == [op |-> "create_product", product |-> product]
        id == NextRowId(products)
    IN  /\ UNCHANGED <<users, orders, lastrowid_unset>>
        /\ Inserted(id)
        /\ IF SetAttrRaises(ProductCreate, "id")
           THEN \* the exception leaves the transaction: rollback
                /\ UNCHANGED <<products, ever_stored>>
                /\ Answered(r, ServerError("ValueError"))
           ELSE /\ Committed("products", id)
                /\ products' = Insert(products, id, [c \in ProductModel |->
                                    IF c = "id" THEN id ELSE product[c]])
                /\ Answered(r, Serialize(Product, [c \in ProductCreate \cup {"id"} |->
                                    IF c = "id" THEN id ELSE product[c]]))

\* GET /products/{product_id}
read_product(product_id) ==
    LET product == fetch_one(products, product_id)
    IN  /\ UNCHANGED <<users, products, orders, ever_stored, lastrowid_unset>>
        /\ last_record_id' = 0
        /\ rowcount' = -1
        /\ Answered([op |-> "read_product", id |-> product_id],
                    IF product = None
                    THEN HTTPException(404, "Product not found")
                    ELSE Serialize(Product, product))

\* POST /orders/ ; t1 and t2 are the two readings of datetime.utcnow().
create_order(order, t1, t2) ==
    LET r == [op |-> "create_order", order |-> order]
        id == NextRowId(orders)
        row == [c \in OrderModel |->
                   CASE c = "id" -> id
                     [] c = "order_date" -> t1
                     [] c = "status" -> StatusDefault
                     [] OTHER -> order[c]]
    IN  /\ UNCHANGED <<users, products, lastrowid_unset>>
        /\ IF KeywordCollision(order, "order_date")
           THEN /\ UNCHANGED <<orders, ever_stored>>
                /\ NothingExecuted
                /\ Answered(r, ServerError("TypeError"))
           ELSE /\ Inserted(id)
                /\ IF \E a \in {"id", "order_date", "status"} : SetAttrRaises(OrderCreate, a)
                   THEN \* the exception leaves the transaction: rollback
                        /\ UNCHANGED <<orders, ever_stored>>
                        /\ Answered(r, ServerError("ValueError"))
                   ELSE /\ Committed("orders", id)
                        /\ orders' = Insert(orders, id, row)
                        /\ Answered(r, Serialize(Order, [row EXCEPT !["order_date"] = t2]))

\* GET /orders/{order_id}
read_order(order_id) ==
    LET order == fetch_one(orders, order_id)
    IN  /\ UNCHANGED <<users, products, orders, ever_stored, lastrowid_unset>>
        /\ last_record_id' = 0
        /\ rowcount' = -1
        /\ Answered([op |-> "read_order", id |-> order_id],
                    IF order = None
                    THEN HTTPException(404, "Order not found")
                    ELSE Serialize(Order, order))

\* PUT /orders/{order_id}
update_order(order_id, updated_order) ==
    LET r == [op |-> "update_order", id |-> order_id, order |-> updated_order]
    IN  /\ UNCHANGED <<users, products, ever_stored, lastrowid_unset>>
        /\ last_record_id' = 0
        /\ rowcount' = Matched(orders, order_id)
        /\ IF SetAttrRaises(OrderCreate, "id")
           THEN \* the exception leaves the transaction: rollback
                /\ orders' = orders
                /\ Answered(r, ServerError("ValueError"))
           ELSE /\ orders' = Update(orders, order_id, updated_order)
                /\ Answered(r, Serialize(Order, [c \in OrderCreate \cup {"id"} |->
                                    IF c = "id" THEN order_id ELSE updated_order[c]]))

\* DELETE /orders/{order_id} ; no transaction: the statement commits alone.
delete_order(order_id) ==
    LET deleted_order == ExecuteResult(lastrowid_unset, Matched(orders, order_id))
    IN  /\ UNCHANGED <<users, products, ever_stored, lastrowid_unset>>
        /\ last_record_id' = 0
        /\ orders' = Delete(orders, order_id)
        /\ rowcount' = Matched(orders, order_id)
        /\ Answered([op |-> "delete_order", id |-> order_id],
                    IF deleted_order = None
                    THEN HTTPException(404, "Order not found")
                    ELSE Serialize(Order, deleted_order))

Next ==
    \/ \E user \in UserCreateInputs : create_user(user)
    \/ \E user_id \in ReqIds : read_user(user_id)
    \/ \E product \in ProductCreateInputs : create_product(product)
    \/ \E product_id \in ReqIds : read_product(product_id)
    \/ \E order \in OrderCreateInputs, t1 \in Times : \E t2 \in {t \in Times : t >= t1} :
            create_order(order, t1, t2)
    \/ \E order_id \in ReqIds : read_order(order_id)
    \/ \E order_id \in ReqIds, updated_order \in OrderCreateInputs : update_order(order_id, updated_order)
    \/ \E order_id \in ReqIds : delete_order(order_id)

Spec == Init /\ [][Next]_vars

(***************************************************************************)
(* Properties.  In a step that is not a stuttering step, req' is the       *)
(* request the step answered and the unprimed tables are the store as the  *)
(* request found it.                                                       *)
(***************************************************************************)
\* What a read of `table` answered for the id of the request.
ReadAnswer(table, schema) ==
    IF req.id \in DOMAIN table
    THEN resp.status_code = 200 /\ resp.body = Restrict(table[req.id], schema)
    ELSE resp.status_code = 404 /\ resp.body = None

\* C1: create_user with an email no stored user has answers 200 with an id
\* under which the users table then holds the first_name, last_name and
\* email of the request, and no stored user is ever changed or removed.
C1_CreateUserResolves ==
    [][/\ \A i \in DOMAIN users : i \in DOMAIN users' /\ users'[i] = users[i]
       /\ (req'.op = "create_user" /\ ~EmailTaken(users, req'.user.email)) =>
             /\ resp'.status_code = 200
             /\ resp'.body.id \in DOMAIN users'
             /\ Restrict(users'[resp'.body.id], UserBase) = Restrict(req'.user, UserBase)]_vars

\* C2: create_user with an email a stored user has fails with the store's
\* constraint violation (IntegrityError) and leaves the users table as it
\* was; no two stored users have the same email.
C2_DuplicateEmailRejected ==
    [][/\ \A i, j \in DOMAIN users' : users'[i].email = users'[j].email => i = j
       /\ (req'.op = "create_user" /\ EmailTaken(users, req'.user.email)) =>
             /\ resp'.detail = "IntegrityError"
             /\ users' = users]_vars

\* C3: a read of an id that has no row in its table answers 404 and no
\* record; a read answers a record only for an id that has a row, and the
\* record is that row under the response schema.
C3_ReadNotFound ==
    /\ req.op = "read_user" => ReadAnswer(users, User)
    /\ req.op = "read_product" => ReadAnswer(products, Product)
    /\ req.op = "read_order" => ReadAnswer(orders, Order)

\* A read of an order id that has no row, beside rows that are stored, was
\* answered 404.
C3_Witness ==
    /\ req.op = "read_order"
    /\ req.id \notin DOMAIN orders
    /\ DOMAIN orders # {}
    /\ resp.status_code = 404

\* C4: every create_order stores a new row whose status is "Pending" and
\* answers 200 with the new id and status "Pending"; a read of that id then
\* finds status "Pending".
C4_CreateOrderPending ==
    [][req'.op = "create_order" =>
          /\ resp'.status_code = 200
          /\ resp'.body.status = "Pending"
          /\ resp'.body.id \notin DOMAIN orders
          /\ resp'.body.id \in DOMAIN orders'
          /\ fetch_one(orders', resp'.body.id).status = "Pending"
          /\ fetch_one(orders', resp'.body.id).order_date \in Times]_vars

\* C5: after update_order(id, newValues) on a stored order, a read of id
\* finds newValues under that id, and the same update applied again leaves
\* the orders table as the first application left it.
C5_UpdateThenRead ==
    [][(req'.op = "update_order" /\ req'.id \in DOMAIN orders) =>
          /\ Restrict(fetch_one(orders', req'.id), OrderBase) = req'.order
          /\ fetch_one(orders', req'.id).id = req'.id
          /\ Update(orders', req'.id, req'.order) = orders']_vars

\* C6: delete_order of a stored order removes that row and no other row,
\* leaves users and products as they were, and a read of that id answered
\* right after the delete answers 404.
C6_DeleteRemovesOnlyThatRow ==
    [][/\ (req'.op = "delete_order" /\ req'.id \in DOMAIN orders) =>
             /\ DOMAIN orders' = DOMAIN orders \ {req'.id}
             /\ \A i \in DOMAIN orders' : orders'[i] = orders[i]
             /\ users' = users
             /\ products' = products
       /\ (req.op = "delete_order" /\ req'.op = "read_order" /\ req'.id = req.id) =>
             resp'.status_code = 404]_vars

\* A delete matched a stored order, which is gone, while another order is
\* still stored.
C6_Witness ==
    /\ req.op = "delete_order"
    /\ rowcount = 1
    /\ req.id \notin DOMAIN orders
    /\ DOMAIN orders # {}

\* C7: update_order of an id that has no row answers 404 and leaves the
\* orders table as it was.
C7_UpdateNotFound ==
    [][(req'.op = "update_order" /\ req'.id \notin DOMAIN orders) =>
          /\ resp'.status_code = 404
          /\ orders' = orders]_vars

\* C8: delete_order of an id that has no row answers 404 "Order not found"
\* and leaves the orders table as it was; it answers success only when a
\* row with that id was stored and has been removed.
C8_DeleteNotFound ==
    [][req'.op = "delete_order" =>
          /\ req'.id \notin DOMAIN orders =>
                /\ resp'.status_code = 404
                /\ resp'.detail = "Order not found"
                /\ orders' = orders
          /\ resp'.status_code = 200 =>
                /\ req'.id \in DOMAIN orders
                /\ req'.id \notin DOMAIN orders']_vars

\* The table an INSERT of the request goes to.
InsertTable(r) ==
    CASE r.op = "create_user" -> "users"
      [] r.op = "create_product" -> "products"
      [] OTHER -> "orders"

\* C9: the id an INSERT is given is greater than every id a row of that
\* table was ever stored under (so the id of a deleted order is never given
\* again), and every stored row is stored under its own id.
C9_IdsStrictlyIncreasing ==
    [][/\ last_record_id' # 0 =>
             \A j \in ever_stored[InsertTable(req')] : last_record_id' > j
       /\ \A i \in DOMAIN orders' : orders'[i].id = i
       /\ \A i \in DOMAIN products' : products'[i].id = i
       /\ \A i \in DOMAIN users' : users'[i].id = i]_vars

====
